---- MODULE Spec2Model ----
(***************************************************************************)
(* Model of the Inky pHAT (SSD1675) display driver, src/src/inky_driver.rs *)
(*                                                                         *)
(* Every driver method is a straight-line sequence of hardware operations  *)
(* (pin writes, bus writes, delays, busy samples) chained by `?`.  Each    *)
(* method is an operator that yields its instruction sequence; the state   *)
(* machine executes one hardware operation per step, and every fallible    *)
(* operation may fail, which ends the call with the mapped error.          *)
(***************************************************************************)
EXTENDS Integers, Sequences, FiniteSets, TLC

\* ---------------------------------------------------------------- bounds
\* most consecutive high samples the busy input gives within one busy_wait
MaxBusyHigh == 2
\* longest short (wrong-length) plane buffer passed to update_bw/update_red
MaxBufLen == 1

\* ------------------------------------------------------------- constants
DRIVER_OUTPUT_CONTROL == 1
DATA_ENTRY_MODE_SETTING == 17
SW_RESET == 18
MASTER_ACTIVATION == 32
DISPLAY_UPDATE_CONTROL_1 == 33
DISPLAY_UPDATE_CONTROL_2 == 34
WRITE_RAM_BW == 36
WRITE_RAM_RED == 38
BORDER_WAVEFORM_CONTROL == 60
SET_RAM_X_ADDRESS_START_END_POSITION == 68
SET_RAM_Y_ADDRESS_START_END_POSITION == 69
SET_RAM_X_ADDRESS_COUNTER == 78
SET_RAM_Y_ADDRESS_COUNTER == 79

ROWS == 212
COLS == 104
\* length of a plane buffer: ROWS as usize * COLS as usize / 8
PlaneBytes == (ROWS * COLS) \div 8

\* pin levels
LOW == 0
HIGH == 1

\* the three output pins the driver owns (the busy pin is an input)
OutputPins == {"cs", "dc", "reset"}

\* underlying failure values of the bus (SPIE) and of the pins (GPIOE)
SPIE == {"spi_e1", "spi_e2"}
GPIOE == {"gpio_e1", "gpio_e2"}

\* Result<(), InkyError<SPIE, GPIOE>>, and the marker of a call in progress
Ok == [tag |-> "Ok", err |-> "none"]
Pending == [tag |-> "Pending", err |-> "none"]

\* an error wrapped in the other variant
InkyError_swapped(tag, e) ==
  [tag |-> IF tag = "Spi" THEN "Gpio" ELSE "Spi", err |-> e]

InkyError(tag, e) == [tag |-> tag, err |-> e]

\* Option<&[u8]>
Some(data) == [some |-> TRUE, data |-> data]
None == [some |-> FALSE, data |-> <<>>]

\* ---------------------------------------------------------- instructions
\* One hardware operation of a method: fn is the method that performs it,
\* at its position in that method, arg the method's byte argument(s),
\* k the kind (an output pin, "spi", "delay" or "busy"), n the level or the
\* milliseconds, bytes the slice handed to spi.write.
Ins(fn, at, arg, k, n, bytes) ==
  [fn |-> fn, at |-> at, arg |-> arg, k |-> k, n |-> n, bytes |-> bytes]

\* reset that returns as soon as the line is high again
reset_no_settle ==
  << Ins("reset", 1, <<>>, "reset", LOW, <<>>),
     Ins("reset", 2, <<>>, "delay", 100, <<>>),
     Ins("reset", 3, <<>>, "reset", HIGH, <<>>) >>

reset ==
  << Ins("reset", 1, <<>>, "reset", LOW, <<>>),
     Ins("reset", 2, <<>>, "delay", 100, <<>>),
     Ins("reset", 3, <<>>, "reset", HIGH, <<>>),
     Ins("reset", 4, <<>>, "delay", 100, <<>>) >>

\* send_command with chip-select asserted before the mode line is set
send_command_cs_first(command) ==
  << Ins("send_command", 1, <<command>>, "cs", LOW, <<>>),
     Ins("send_command", 2, <<command>>, "dc", LOW, <<>>),
     Ins("send_command", 3, <<command>>, "spi", 0, <<command>>),
     Ins("send_command", 4, <<command>>, "cs", HIGH, <<>>) >>

send_command(command) ==
  << Ins("send_command", 1, <<command>>, "dc", LOW, <<>>),
     Ins("send_command", 2, <<command>>, "cs", LOW, <<>>),
     Ins("send_command", 3, <<command>>, "spi", 0, <<command>>),
     Ins("send_command", 4, <<command>>, "cs", HIGH, <<>>) >>

\* send_data that leaves the mode line low (a copy of send_command)
send_data_dc_low(data) ==
  << Ins("send_data", 1, data, "dc", LOW, <<>>),
     Ins("send_data", 2, data, "cs", LOW, <<>>),
     Ins("send_data", 3, data, "spi", 0, data),
     Ins("send_data", 4, data, "cs", HIGH, <<>>) >>

\* send_data that leaves chip-select asserted
send_data_no_release(data) ==
  << Ins("send_data", 1, data, "dc", HIGH, <<>>),
     Ins("send_data", 2, data, "cs", LOW, <<>>),
     Ins("send_data", 3, data, "spi", 0, data) >>

send_data(data) ==
  << Ins("send_data", 1, data, "dc", HIGH, <<>>),
     Ins("send_data", 2, data, "cs", LOW, <<>>),
     Ins("send_data", 3, data, "spi", 0, data),
     Ins("send_data", 4, data, "cs", HIGH, <<>>) >>

send_command_data(command, data) ==
  send_command(command) \o (IF data.some THEN send_data(data.data) ELSE <<>>)

\* busy_wait that sleeps the reset settle time between samples
busy_wait_long ==
  << Ins("busy_wait", 1, <<>>, "busy", 0, <<>>),
     Ins("busy_wait", 2, <<>>, "delay", 100, <<>>) >>

\* while self.busy.is_high()? { delay.delay_ms(10) }: the sample, then the
\* loop body; the step relation jumps back from the body to the sample and
\* past the body when the sample reads low.
busy_wait ==
  << Ins("busy_wait", 1, <<>>, "busy", 0, <<>>),
     Ins("busy_wait", 2, <<>>, "delay", 10, <<>>) >>

\* set_ram_address_counter that sends the Y counter high byte first
set_ram_address_counter_be(x, y) ==
     send_command_data(SET_RAM_X_ADDRESS_COUNTER, Some(<<x>>))
  \o send_command_data(SET_RAM_Y_ADDRESS_COUNTER,
                       Some(<<(y \div 256) % 256, y % 256>>))

\* [x] is a u8; `y as u8` keeps the low 8 bits, `(y >> 8) as u8` the next 8
set_ram_address_counter(x, y) ==
     send_command_data(SET_RAM_X_ADDRESS_COUNTER, Some(<<x>>))
  \o send_command_data(SET_RAM_Y_ADDRESS_COUNTER,
                       Some(<<y % 256, (y \div 256) % 256>>))

\* init with the window commands issued Y before X
init_swapped ==
     reset
  \o busy_wait
  \o send_command(SW_RESET)
  \o busy_wait
  \o send_command_data(DRIVER_OUTPUT_CONTROL, Some(<<211, 0, 0>>))
  \o send_command_data(DATA_ENTRY_MODE_SETTING, Some(<<3>>))
  \o send_command_data(SET_RAM_Y_ADDRESS_START_END_POSITION,
                       Some(<<0, 0, 211, 0>>))
  \o send_command_data(SET_RAM_X_ADDRESS_START_END_POSITION, Some(<<0, 12>>))
  \o send_command_data(BORDER_WAVEFORM_CONTROL, Some(<<5>>))
  \o send_command_data(DISPLAY_UPDATE_CONTROL_1, Some(<<0, 128>>))
  \o send_command_data(DISPLAY_UPDATE_CONTROL_2, Some(<<199>>))

\* init that does not wait for busy after the software reset
init_no_wait ==
     reset
  \o busy_wait
  \o send_command(SW_RESET)
  \o send_command_data(DRIVER_OUTPUT_CONTROL, Some(<<211, 0, 0>>))
  \o send_command_data(DATA_ENTRY_MODE_SETTING, Some(<<3>>))
  \o send_command_data(SET_RAM_X_ADDRESS_START_END_POSITION, Some(<<0, 12>>))
  \o send_command_data(SET_RAM_Y_ADDRESS_START_END_POSITION,
                       Some(<<0, 0, 211, 0>>))
  \o send_command_data(BORDER_WAVEFORM_CONTROL, Some(<<5>>))
  \o send_command_data(DISPLAY_UPDATE_CONTROL_1, Some(<<0, 128>>))
  \o send_command_data(DISPLAY_UPDATE_CONTROL_2, Some(<<199>>))

init ==
     reset
  \o busy_wait
  \o send_command(SW_RESET)
  \o busy_wait
  \o send_command_data(DRIVER_OUTPUT_CONTROL, Some(<<211, 0, 0>>))
  \o send_command_data(DATA_ENTRY_MODE_SETTING, Some(<<3>>))
  \o send_command_data(SET_RAM_X_ADDRESS_START_END_POSITION, Some(<<0, 12>>))
  \o send_command_data(SET_RAM_Y_ADDRESS_START_END_POSITION,
                       Some(<<0, 0, 211, 0>>))
  \o send_command_data(BORDER_WAVEFORM_CONTROL, Some(<<5>>))
  \o send_command_data(DISPLAY_UPDATE_CONTROL_1, Some(<<0, 128>>))
  \o send_command_data(DISPLAY_UPDATE_CONTROL_2, Some(<<199>>))

\* update_bw that also triggers the redraw
update_bw_refreshes(buffer) ==
     set_ram_address_counter(0, 0)
  \o send_command_data(WRITE_RAM_BW, Some(buffer))
  \o send_command(MASTER_ACTIVATION)

update_bw(buffer) ==
     set_ram_address_counter(0, 0)
  \o send_command_data(WRITE_RAM_BW, Some(buffer))

\* update_red that writes the black/white RAM (a copy of update_bw)
update_red_bw_opcode(buffer) ==
     set_ram_address_counter(0, 0)
  \o send_command_data(WRITE_RAM_BW, Some(buffer))

update_red(buffer) ==
     set_ram_address_counter(0, 0)
  \o send_command_data(WRITE_RAM_RED, Some(buffer))

display_refresh ==
  send_command(MASTER_ACTIVATION) \o busy_wait

\* the instruction sequence of a method called with a buffer; for
\* set_ram_address_counter, run on its own, the argument is the pair <<x, y>>
Program(op, buffer) ==
  CASE op = "reset" -> reset
    [] op = "init" -> init
    [] op = "update_bw" -> update_bw(buffer)
    [] op = "update_red" -> update_red(buffer)
    [] op = "display_refresh" -> display_refresh
    [] op = "set_ram_address_counter" ->
         set_ram_address_counter(buffer[1], buffer[2])
    [] OTHER -> <<>>

\* ------------------------------------------------------- caller's inputs
\* bytes a caller's buffer is filled with: the master-activation opcode as
\* data, and an ordinary byte
BufferBytes == {MASTER_ACTIVATION, 255}

RECURSIVE SeqsUpTo(_, _)
SeqsUpTo(S, n) ==
  IF n = 0 THEN {<<>>}
  ELSE LET shorter == SeqsUpTo(S, n - 1)
       IN shorter \cup {Append(s, b) : s \in {t \in shorter : Len(t) = n - 1},
                                       b \in S}

\* a plane buffer of the panel's length, as main.rs allocates it
FullBuffer == [i \in 1..PlaneBytes |-> 0]

\* the buffers the caller passes: the right length, and shorter ones
Buffers == {FullBuffer} \cup SeqsUpTo(BufferBytes, MaxBufLen)

\* arguments of set_ram_address_counter(x: u8, y: u16): the ends of both
\* ranges, the panel's last column byte and last row, and values of y whose
\* two bytes differ
AddrXs == {0, 12, 255}
AddrYs == {0, 211, 255, 256, 4660, 65535}

\* ------------------------------------------------------------------ state
VARIABLES
  pins,      \* level last driven on each output pin
  call,      \* the public method running, or the last one that ran
  buffer,    \* its buffer argument (<<>> when it takes none)
  pc,        \* index of the next instruction of Program(call, buffer)
  result,    \* Pending while it runs, then what it returned
  log,       \* hardware operations performed by the call so far
  awaiting,  \* SW_RESET / MASTER_ACTIVATION written, busy not yet seen low
  raised,    \* failure value the failed pin / bus operation gave, or "none"
  inited,    \* an init() has returned Ok on this instance
  faulted,   \* a call returned an error and no init() returned Ok since
  staged     \* planes written since the last init() Ok, no failure since

vars == <<pins, call, buffer, pc, result, log, awaiting,
          raised, inited, faulted, staged>>

Running == result = Pending
Cur == Program(call, buffer)[pc]

\* the record of one performed operation: the instruction, the level read
\* (busy) or requested, whether it succeeded, and the cs / dc levels it saw
Event(ins, n, ok) ==
  [pc |-> pc, fn |-> ins.fn, at |-> ins.at, arg |-> ins.arg, k |-> ins.k,
   n |-> n, bytes |-> ins.bytes, ok |-> ok, cs |-> pins.cs, dc |-> pins.dc]

\* high samples taken so far by the busy_wait whose sample is at index p
HighsAt(p) == Cardinality({i \in 1..Len(log) : log[i].pc = p /\ log[i].n = HIGH})

Init ==
  /\ pins \in [OutputPins -> {LOW, HIGH}]
  /\ call = "none"
  /\ buffer = <<>>
  /\ pc = 0
  /\ result = Ok
  /\ log = <<>>
  /\ awaiting = FALSE
  /\ raised = "none"
  /\ inited = FALSE
  /\ faulted = FALSE
  /\ staged = {}

\* an entry that skips the refresh, returning Ok at once, unless both planes
\* were written
Enter_needs_both(op, buf) ==
  /\ ~Running
  /\ call' = op
  /\ buffer' = buf
  /\ IF op = "display_refresh" /\ staged # {"update_bw", "update_red"}
     THEN pc' = 0 /\ result' = Ok
     ELSE pc' = 1 /\ result' = Pending
  /\ log' = <<>>
  /\ raised' = "none"
  /\ UNCHANGED <<pins, awaiting, inited, faulted, staged>>

\* a public method is entered
Enter(op, buf) ==
  /\ ~Running
  /\ call' = op
  /\ buffer' = buf
  /\ pc' = 1
  /\ result' = Pending
  /\ log' = <<>>
  /\ raised' = "none"
  /\ UNCHANGED <<pins, awaiting, inited, faulted, staged>>

CallReset == Enter("reset", <<>>)
CallInit == Enter("init", <<>>)
CallUpdateBw == \E buf \in Buffers : Enter("update_bw", buf)
CallUpdateRed == \E buf \in Buffers : Enter("update_red", buf)
CallDisplayRefresh == Enter("display_refresh", <<>>)
\* the private helper run on its own, with arguments of its parameter types
CallSetRamAddressCounter ==
  \E x \in AddrXs, y \in AddrYs : Enter("set_ram_address_counter", <<x, y>>)

\* the operation succeeded: go on d instructions ahead, or return Ok(())
\* when the method's last instruction is behind
Continue(d) ==
  IF pc + d > Len(Program(call, buffer))
  THEN pc' = 0 /\ result' = Ok
  ELSE pc' = pc + d /\ result' = result

\* the operation failed: `.map_err(tag)?` returns the error from the method
\* and, through `?` in its callers, from the public method
Fail(tag, e) ==
  /\ pc' = 0
  /\ result' = InkyError(tag, e)

\* what the step that has just set result' means for the driver's lifecycle
\* (the struct itself keeps no such state: lines 35-41 hold only the handles)
Track ==
  LET failed == result'.tag \in {"Spi", "Gpio"}
      initOk == call = "init" /\ result' = Ok
  IN /\ inited' = (inited \/ initOk)
     /\ faulted' = (failed \/ (faulted /\ ~initOk))
     /\ staged' = IF failed \/ initOk THEN {}
                  ELSE IF /\ call \in {"update_bw", "update_red"}
                          /\ result' = Ok /\ inited /\ ~faulted
                       THEN staged \cup {call}
                       ELSE staged

\* pin.set_low() / pin.set_high() returns Ok
SetPinOk ==
  /\ Running
  /\ Cur.k \in OutputPins
  /\ pins' = [pins EXCEPT ![Cur.k] = Cur.n]
  /\ log' = Append(log, Event(Cur, Cur.n, TRUE))
  /\ Continue(1)
  /\ raised' = raised
  /\ Track
  /\ UNCHANGED <<call, buffer, awaiting>>

\* a failed pin write whose error is dropped instead of returned
SetPinErr_ignored ==
  /\ Running
  /\ Cur.k \in OutputPins
  /\ \E lvl \in {pins[Cur.k], Cur.n} : pins' = [pins EXCEPT ![Cur.k] = lvl]
  /\ log' = Append(log, Event(Cur, Cur.n, FALSE))
  /\ Continue(1)
  /\ raised' = raised
  /\ Track
  /\ UNCHANGED <<call, buffer, awaiting>>

\* pin.set_low() / pin.set_high() returns Err: the level of the pin is then
\* whatever the failed operation left, the old level or the requested one
SetPinErr ==
  /\ Running
  /\ Cur.k \in OutputPins
  /\ \E e \in GPIOE, lvl \in {pins[Cur.k], Cur.n} :
       /\ pins' = [pins EXCEPT ![Cur.k] = lvl]
       /\ raised' = e
       /\ Fail("Gpio", e)
  /\ log' = Append(log, Event(Cur, Cur.n, FALSE))
  /\ Track
  /\ UNCHANGED <<call, buffer, awaiting>>

\* spi.write(bytes) returns Ok
SpiWriteOk ==
  /\ Running
  /\ Cur.k = "spi"
  /\ log' = Append(log, Event(Cur, 0, TRUE))
  /\ awaiting' = IF pins.dc = LOW
                    /\ Cur.bytes \in {<<SW_RESET>>, <<MASTER_ACTIVATION>>}
                 THEN TRUE ELSE awaiting
  /\ Continue(1)
  /\ raised' = raised
  /\ Track
  /\ UNCHANGED <<pins, call, buffer>>

\* a failed bus write after which chip-select is released before returning
SpiWriteErr_releases ==
  /\ Running
  /\ Cur.k = "spi"
  /\ log' = Append(log, Event(Cur, 0, FALSE))
  /\ \E e \in SPIE : raised' = e /\ Fail("Spi", e)
  /\ pins' = [pins EXCEPT !.cs = HIGH]
  /\ Track
  /\ UNCHANGED <<call, buffer, awaiting>>

\* spi.write(bytes) returns Err
SpiWriteErr ==
  /\ Running
  /\ Cur.k = "spi"
  /\ log' = Append(log, Event(Cur, 0, FALSE))
  /\ \E e \in SPIE : raised' = e /\ Fail("Spi", e)
  /\ Track
  /\ UNCHANGED <<pins, call, buffer, awaiting>>

\* delay.delay_ms(ms): infallible; the delay in the body of busy_wait's loop
\* goes back to the loop condition
DelayMs ==
  /\ Running
  /\ Cur.k = "delay"
  /\ log' = Append(log, Event(Cur, Cur.n, TRUE))
  /\ IF Cur.fn = "busy_wait"
     THEN pc' = pc - 1 /\ result' = result
     ELSE Continue(1)
  /\ raised' = raised
  /\ Track
  /\ UNCHANGED <<pins, call, buffer, awaiting>>

\* a high sample that ends the wait (loop condition negated)
BusyHigh_exits ==
  /\ Running
  /\ Cur.k = "busy"
  /\ HighsAt(pc) < MaxBusyHigh
  /\ log' = Append(log, Event(Cur, HIGH, TRUE))
  /\ Continue(2)
  /\ raised' = raised
  /\ Track
  /\ UNCHANGED <<pins, call, buffer, awaiting>>

\* a high sample after which the wait gives up on the second attempt
BusyHigh_timeout ==
  /\ Running
  /\ Cur.k = "busy"
  /\ HighsAt(pc) < MaxBusyHigh
  /\ log' = Append(log, Event(Cur, HIGH, TRUE))
  /\ IF HighsAt(pc) >= 1
     THEN raised' = "gpio_e1" /\ Fail("Gpio", "gpio_e1")
     ELSE raised' = raised /\ Continue(1)
  /\ Track
  /\ UNCHANGED <<pins, call, buffer, awaiting>>

\* busy.is_high() returns Ok(true): enter the loop body
BusyHigh ==
  /\ Running
  /\ Cur.k = "busy"
  /\ HighsAt(pc) < MaxBusyHigh
  /\ log' = Append(log, Event(Cur, HIGH, TRUE))
  /\ Continue(1)
  /\ raised' = raised
  /\ Track
  /\ UNCHANGED <<pins, call, buffer, awaiting>>

\* busy.is_high() returns Ok(false): leave the loop, busy_wait returns Ok
BusyLow ==
  /\ Running
  /\ Cur.k = "busy"
  /\ log' = Append(log, Event(Cur, LOW, TRUE))
  /\ awaiting' = FALSE
  /\ Continue(2)
  /\ raised' = raised
  /\ Track
  /\ UNCHANGED <<pins, call, buffer>>

\* busy.is_high() returns Err
BusyErr ==
  /\ Running
  /\ Cur.k = "busy"
  /\ log' = Append(log, Event(Cur, 0, FALSE))
  /\ \E e \in GPIOE : raised' = e /\ Fail("Gpio", e)
  /\ Track
  /\ UNCHANGED <<pins, call, buffer, awaiting>>

Next ==
  \/ CallReset
  \/ CallInit
  \/ CallUpdateBw
  \/ CallUpdateRed
  \/ CallDisplayRefresh
  \/ SetPinOk
  \/ SetPinErr
  \/ SpiWriteOk
  \/ SpiWriteErr
  \/ DelayMs
  \/ BusyHigh
  \/ BusyLow
  \/ BusyErr

Spec == Init /\ [][Next]_vars

\* set_ram_address_counter on its own, over the values of its parameters
NextAddr ==
  \/ CallSetRamAddressCounter
  \/ SetPinOk
  \/ SetPinErr
  \/ SpiWriteOk
  \/ SpiWriteErr

SpecAddr == Init /\ [][NextAddr]_vars

\* one hardware operation of the running call
Step ==
  \/ SetPinOk
  \/ SetPinErr
  \/ SpiWriteOk
  \/ SpiWriteErr
  \/ DelayMs
  \/ BusyHigh
  \/ BusyLow
  \/ BusyErr

\* the two methods that wait for busy
NextWait ==
  \/ CallInit
  \/ CallDisplayRefresh
  \/ Step

\* The driver is synchronous and single-threaded: a call that has been
\* entered always performs its next operation.  The busy input reads low
\* after at most MaxBusyHigh high samples.
FairSpec == Init /\ [][NextWait]_vars /\ WF_vars(Step)

TypeOK ==
  /\ pins \in [OutputPins -> {LOW, HIGH}]
  /\ call \in {"none", "reset", "init", "update_bw", "update_red",
               "display_refresh", "set_ram_address_counter"}
  /\ buffer \in Buffers \cup (AddrXs \X AddrYs)
  /\ pc \in 0..Len(Program(call, buffer))
  /\ Running <=> pc > 0
  /\ awaiting \in BOOLEAN
  /\ raised \in {"none"} \cup SPIE \cup GPIOE
  /\ inited \in BOOLEAN
  /\ faulted \in BOOLEAN
  /\ staged \subseteq {"update_bw", "update_red"}

\* ------------------------------------------------------------ properties
\* the successful bus writes of the call so far, each as the level of the
\* data/command line it was made under and the bytes written
BusTrace ==
  LET w == SelectSeq(log, LAMBDA e : e.k = "spi" /\ e.ok)
  IN [i \in 1..Len(w) |-> <<w[i].dc, w[i].bytes>>]

\* a command-mode write of one opcode, a data-mode write of a payload
Cmd(c) == <<LOW, <<c>>>>
Data(d) == <<HIGH, d>>

Returned(op) == call = op /\ result = Ok

SampleAt(i, lvl) == log[i].k = "busy" /\ log[i].ok /\ log[i].n = lvl
SpiIdx == {i \in 1..Len(log) : log[i].k = "spi"}
\* indices of the events of the busy_wait whose sample instruction is at p
WaitIdx(p) == {i \in 1..Len(log) : log[i].pc \in {p, p + 1}}
\* sample instructions of the running (or last) call's busy_waits
Waits == {p \in 1..Len(Program(call, buffer)) : Program(call, buffer)[p].k = "busy"}
\* the call has gone past the busy_wait at p: that busy_wait returned Ok
Passed(p) == result = Ok \/ \E i \in 1..Len(log) : log[i].pc > p + 1
SetMax(S) == CHOOSE m \in S : \A x \in S : x <= m
SetMin(S) == CHOOSE m \in S : \A x \in S : m <= x

\* C1: an init() in which nothing fails writes exactly the 15 bus writes
\* 0x12; 0x01,[D3,00,00]; 0x11,[03]; 0x44,[00,0C]; 0x45,[00,00,D3,00];
\* 0x3C,[05]; 0x21,[00,80]; 0x22,[C7], opcodes in command mode and payloads
\* in data mode, however often busy read high.
C1_InitBusTrace ==
  Returned("init") =>
    BusTrace = << Cmd(18),
                  Cmd(1), Data(<<211, 0, 0>>),
                  Cmd(17), Data(<<3>>),
                  Cmd(68), Data(<<0, 12>>),
                  Cmd(69), Data(<<0, 0, 211, 0>>),
                  Cmd(60), Data(<<5>>),
                  Cmd(33), Data(<<0, 128>>),
                  Cmd(34), Data(<<199>>) >>

C1_Witness ==
  /\ Returned("init")
  /\ Len(BusTrace) = 15
  /\ \E i, j \in 1..Len(log) : i < j /\ SampleAt(i, HIGH) /\ SampleAt(j, HIGH)
                               /\ log[i].pc # log[j].pc

\* C2: in every init(), the events come in the order reset low, 100 ms,
\* reset high, 100 ms, busy polled until low, software reset written, busy
\* polled until low, driver-output-control: nothing is written on the bus
\* before the reset pulse is complete and busy was sampled low, and no
\* configuration command before busy was sampled low after the software reset.
C2_InitOrder ==
  call = "init" =>
    /\ Len(log) >= 1 => log[1].k = "reset" /\ log[1].n = LOW
    /\ Len(log) >= 2 => log[2].k = "delay" /\ log[2].n = 100 /\ log[1].ok
    /\ Len(log) >= 3 => log[3].k = "reset" /\ log[3].n = HIGH
    /\ Len(log) >= 4 => log[4].k = "delay" /\ log[4].n = 100 /\ log[3].ok
    /\ Len(log) >= 5 => log[5].k = "busy"
    /\ \A i \in SpiIdx :
         LET first == SetMin(SpiIdx)
         IN /\ \A j \in 1..4 : log[j].ok
            /\ \E j \in 5..(first - 1) :
                 /\ SampleAt(j, LOW)
                 /\ \A m \in 5..j : log[m].fn = "busy_wait"
                 /\ \A m \in (j + 1)..(first - 1) : log[m].k \in {"dc", "cs"}
            /\ log[first].dc = LOW /\ log[first].bytes = <<SW_RESET>>
            /\ i > first =>
                 LET second == SetMin(SpiIdx \ {first})
                 IN /\ log[first].ok
                    /\ \E j \in (first + 2)..(second - 1) :
                         /\ SampleAt(j, LOW)
                         /\ log[first + 1].k = "cs"
                         /\ \A m \in (first + 2)..j : log[m].fn = "busy_wait"
                         /\ \A m \in (j + 1)..(second - 1) :
                              log[m].k \in {"dc", "cs"}
                    /\ log[second].dc = LOW
                    /\ log[second].bytes = <<DRIVER_OUTPUT_CONTROL>>

C2_Witness ==
  /\ call = "init"
  /\ Cardinality(SpiIdx) >= 2
  /\ \E i \in 5..SetMin(SpiIdx) : SampleAt(i, HIGH)
  /\ \E i \in SetMin(SpiIdx)..Len(log) :
       SampleAt(i, HIGH) /\ \E j \in SpiIdx : j > i

\* C3: in any sequence of calls, failing ones included, once the software
\* reset (0x12) or master activation (0x20) command has been written, no
\* further byte is written on the bus until busy has been sampled low.
C3_NoWriteBeforeBusyLow ==
  [][~(/\ awaiting
       /\ Len(log') > 0
       /\ log' # log
       /\ log'[Len(log')].k = "spi"
       /\ log'[Len(log')].ok)]_vars

\* C4: every send_command(c) that returns Ok drove data/command low, then
\* chip-select low, made exactly one bus write of the single byte c with both
\* lines low, and drove chip-select high before returning.
C4_SendCommand ==
  \A i \in 1..Len(log) :
    (log[i].fn = "send_command" /\ log[i].at = Len(send_command(0)) /\ log[i].ok) =>
      /\ i >= 4
      /\ \A j \in (i - 3)..i : log[j].fn = "send_command" /\ log[j].ok
      /\ log[i - 3].k = "dc" /\ log[i - 3].n = LOW
      /\ log[i - 2].k = "cs" /\ log[i - 2].n = LOW
      /\ log[i - 1].k = "spi" /\ log[i - 1].bytes = log[i].arg
      /\ Len(log[i].arg) = 1
      /\ log[i - 1].cs = LOW /\ log[i - 1].dc = LOW
      /\ log[i].k = "cs" /\ log[i].n = HIGH
      /\ IF i < Len(log) THEN log[i + 1].cs = HIGH ELSE pins.cs = HIGH

C4_Witness ==
  \E i \in 1..Len(log) :
    /\ log[i].fn = "send_command" /\ log[i].at = 4 /\ log[i].ok
    /\ log[i].arg = <<MASTER_ACTIVATION>>
    /\ ~Running

\* C5: every send_data(buf) that returns Ok drove data/command high, then
\* chip-select low, wrote the whole of buf in exactly one bus write with
\* chip-select low and data/command high, and drove chip-select high after.
C5_SendData ==
  \A i \in 1..Len(log) :
    (log[i].fn = "send_data" /\ log[i].at = Len(send_data(<<>>)) /\ log[i].ok) =>
      /\ i >= 4
      /\ \A j \in (i - 3)..i : log[j].fn = "send_data" /\ log[j].ok
      /\ log[i - 3].k = "dc" /\ log[i - 3].n = HIGH
      /\ log[i - 2].k = "cs" /\ log[i - 2].n = LOW
      /\ log[i - 1].k = "spi" /\ log[i - 1].bytes = log[i].arg
      /\ log[i - 1].cs = LOW /\ log[i - 1].dc = HIGH
      /\ log[i].k = "cs" /\ log[i].n = HIGH
      /\ IF i < Len(log) THEN log[i + 1].cs = HIGH ELSE pins.cs = HIGH

C5_Witness ==
  \E i \in 1..Len(log) :
    /\ log[i].fn = "send_data" /\ log[i].at = 4 /\ log[i].ok
    /\ log[i].arg = FullBuffer
    /\ log[i - 1].bytes = FullBuffer

\* C6: every successful update_bw(buf) / update_red(buf) writes exactly
\* 0x4E,[00]; 0x4F,[00,00]; the plane's RAM-write opcode (0x24 black/white,
\* 0x26 red); buf: the address counter is reset to (0,0) immediately before
\* the RAM write, and the two differ only in that opcode.
C6_UpdatePlaneTrace ==
  \A op \in {"update_bw", "update_red"} :
    Returned(op) =>
      BusTrace = << Cmd(78), Data(<<0>>),
                    Cmd(79), Data(<<0, 0>>),
                    Cmd(IF op = "update_bw" THEN 36 ELSE 38), Data(buffer) >>

C6_Witness ==
  /\ Returned("update_red")
  /\ buffer = FullBuffer
  /\ Len(BusTrace) = 6

\* C7: busy_wait samples busy at least once and returns Ok only at the first
\* sample that reads low: never while the latest sample read high, and it
\* takes no further sample after one read low.
C7_BusyWaitFirstLow ==
  \A p \in Waits :
    /\ Passed(p) =>
         /\ WaitIdx(p) # {}
         /\ SampleAt(SetMax(WaitIdx(p)), LOW)
    /\ \A i \in WaitIdx(p) :
         SampleAt(i, LOW) => \A j \in WaitIdx(p) : j <= i

C7_Witness ==
  /\ Returned("display_refresh")
  /\ \E p \in Waits :
       /\ Cardinality({i \in WaitIdx(p) : SampleAt(i, HIGH)}) = 1
       /\ SampleAt(Len(log), LOW)

\* C8: a busy_wait in which busy reads high k times and then low requests
\* exactly k delays of 10 ms, one after each high sample, and takes exactly
\* k+1 samples; with [high, high, low] each busy_wait sleeps exactly twice.
C8_BusyWaitPolls ==
  \A p \in Waits :
    LET samples == {i \in WaitIdx(p) : log[i].k = "busy"}
        highs == {i \in WaitIdx(p) : SampleAt(i, HIGH)}
        delays == {i \in WaitIdx(p) : log[i].k = "delay"}
    IN /\ \A i \in delays : log[i].n = 10 /\ (i - 1) \in highs
       /\ \A i \in highs : i < Len(log) => (i + 1) \in delays
       /\ \A i \in delays : i < Len(log) => (i + 1) \in samples
       /\ Passed(p) =>
            /\ Cardinality(delays) = Cardinality(highs)
            /\ Cardinality(samples) = Cardinality(highs) + 1

C8_Witness ==
  /\ Returned("init")
  /\ \A p \in Waits :
       /\ Cardinality({i \in WaitIdx(p) : SampleAt(i, HIGH)}) = 2
       /\ Cardinality({i \in WaitIdx(p) : log[i].k = "delay"}) = 2

\* C9: in every driver operation the first pin or bus operation that fails
\* ends the call: the call returns that error and performs no further pin
\* write, bus write, busy sample or delay, and does not repeat the operation.
C9_FirstFailureEndsCall ==
  /\ \A i \in 1..Len(log) :
       ~log[i].ok =>
         /\ i = Len(log)
         /\ ~Running
         /\ result.tag = (IF log[i].k = "spi" THEN "Spi" ELSE "Gpio")
  /\ result.tag \in {"Spi", "Gpio"} => Len(log) > 0 /\ ~log[Len(log)].ok

C9_Witness ==
  /\ call = "init"
  /\ result.tag = "Gpio"
  /\ Len(log) > 10
  /\ log[Len(log)].k = "cs" /\ ~log[Len(log)].ok

\* C10: a plane buffer whose length is not 2756 bytes is rejected or
\* flagged by update_bw / update_red: the call does not return an ordinary
\* success after transferring the wrong-length buffer.
C10_WrongLengthRejected ==
  \A op \in {"update_bw", "update_red"} :
    (Returned(op) /\ Len(buffer) # 2756) =>
      ~\E i \in 1..Len(log) : log[i].k = "spi" /\ log[i].ok /\ log[i].bytes = buffer

Last == log[Len(log)]
Failed == result.tag \in {"Spi", "Gpio"}
\* the step just taken was a successful bus write
WroteBus == Len(log') > 0 /\ log' # log /\ log'[Len(log')].k = "spi"
            /\ log'[Len(log')].ok

\* C11: planes are independently stageable: after a successful init and
\* with no failure since, display_refresh succeeds after any mix of
\* update_bw / update_red calls (none, one plane only, both): it writes
\* master activation, sees busy low and returns Ok.
C11_RefreshAfterAnyStaging ==
  (call = "display_refresh" /\ ~Running /\ inited /\ ~faulted) =>
    /\ result = Ok
    /\ BusTrace = <<Cmd(MASTER_ACTIVATION)>>
    /\ SampleAt(Len(log), LOW)

C11_Witness ==
  /\ Returned("display_refresh")
  /\ inited /\ ~faulted
  /\ staged = {"update_bw"}
  /\ BusTrace = <<Cmd(MASTER_ACTIVATION)>>

\* C12: update_bw and update_red never trigger a redraw: they make no
\* command-mode write of master activation (0x20), buffer bytes equal to 0x20
\* go out only in data mode, and only display_refresh writes that command.
C12_NoRedrawFromUpdate ==
  \A i \in 1..Len(log) :
    log[i].k = "spi" =>
      /\ (log[i].dc = LOW /\ log[i].bytes = <<MASTER_ACTIVATION>>) =>
           call = "display_refresh"
      /\ (call \in {"update_bw", "update_red"}
          /\ \E j \in 1..Len(log[i].bytes) : log[i].bytes[j] = MASTER_ACTIVATION) =>
           log[i].dc = HIGH /\ log[i].fn = "send_data"

C12_Witness ==
  /\ Returned("update_bw")
  /\ buffer = <<MASTER_ACTIVATION>>
  /\ \E i \in 1..Len(log) :
       log[i].k = "spi" /\ log[i].bytes = <<MASTER_ACTIVATION>> /\ log[i].dc = HIGH

\* C13: every successful reset() performs exactly reset low, a 100 ms
\* delay, reset high, a 100 ms delay, in that order, leaves the reset line
\* high, writes nothing on the bus and touches no other pin.
C13_ResetPulse ==
  Returned("reset") =>
    /\ [i \in 1..Len(log) |-> <<log[i].k, log[i].n>>] =
         << <<"reset", LOW>>, <<"delay", 100>>, <<"reset", HIGH>>, <<"delay", 100>> >>
    /\ pins.reset = HIGH
    /\ \A i \in 1..Len(log) : log[i].cs = pins.cs /\ log[i].dc = pins.dc

C13_Witness ==
  /\ Returned("reset")
  /\ Len(log) = 4
  /\ pins.cs = LOW

\* C14: for x in 0..255 and y in 0..65535, set_ram_address_counter(x, y)
\* writes command 0x4E with payload [x], then command 0x4F with the
\* little-endian payload [y mod 256, y div 256], which decodes back to y as
\* lo + 256*hi.
C14_AddressCounterBytes ==
  Returned("set_ram_address_counter") =>
    LET x == buffer[1]
        y == buffer[2]
    IN /\ BusTrace = << Cmd(78), Data(<<x>>),
                        Cmd(79), Data(<<y % 256, y \div 256>>) >>
       /\ BusTrace[4][2][1] + 256 * BusTrace[4][2][2] = y
       /\ \A i \in 1..2 : BusTrace[4][2][i] \in 0..255

C14_Witness ==
  /\ Returned("set_ram_address_counter")
  /\ buffer = <<255, 4660>>
  /\ BusTrace[4] = Data(<<52, 18>>)

\* C15: no update_bw / update_red / display_refresh writes to the bus
\* unless an init has completed successfully earlier on the instance.
C15_InitBeforeTransfer ==
  (/\ call \in {"update_bw", "update_red", "display_refresh"}
   /\ \E i \in 1..Len(log) : log[i].k = "spi" /\ log[i].ok) => inited

\* C16: once a driver operation has returned an error, no later update_bw,
\* update_red or display_refresh transfers data or triggers a refresh until
\* an init has completed successfully again.
C16_FaultedUntilInit ==
  [][~(/\ faulted
       /\ call \in {"update_bw", "update_red", "display_refresh"}
       /\ WroteBus)]_vars

\* C17: an error returned by a driver operation has exactly one of two
\* kinds, matching the operation that failed: Spi for a failed bus write,
\* Gpio for a failed pin write or busy read, each carrying the failure value
\* of the underlying operation unchanged; there is no other error outcome.
C17_ErrorKinds ==
  /\ result.tag \in {"Ok", "Pending", "Spi", "Gpio"}
  /\ Failed =>
       /\ Len(log) > 0 /\ ~Last.ok
       /\ result.tag = "Spi" <=> Last.k = "spi"
       /\ result.tag = "Gpio" <=> Last.k \in OutputPins \cup {"busy"}
       /\ result.err = raised
       /\ raised \in (IF Last.k = "spi" THEN SPIE ELSE GPIOE)
  /\ (~Running /\ ~Failed) =>
       result = Ok /\ raised = "none" /\ \A i \in 1..Len(log) : log[i].ok

C17_Witness ==
  /\ result = InkyError("Gpio", "gpio_e2")
  /\ Last.k = "busy"
  /\ call = "display_refresh"

\* C18: when the bus write fails inside send_command or send_data, the call
\* returns the bus error without driving chip-select high again: chip-select,
\* driven low by the call before the write, is still low at the return.
C18_ChipSelectLeftLow ==
  result.tag = "Spi" =>
    /\ ~Running
    /\ Len(log) >= 2
    /\ Last.k = "spi" /\ ~Last.ok /\ Last.fn \in {"send_command", "send_data"}
    /\ log[Len(log) - 1].k = "cs" /\ log[Len(log) - 1].n = LOW
    /\ log[Len(log) - 1].ok /\ log[Len(log) - 1].fn = Last.fn
    /\ pins.cs = LOW

C18_Witness ==
  /\ result.tag = "Spi"
  /\ call = "update_red"
  /\ Last.fn = "send_data" /\ Last.bytes = FullBuffer
  /\ log[1].cs = HIGH
  /\ pins.cs = LOW

\* after a high sample or a poll delay the wait is still going on: the next
\* operation is the 10 ms delay, respectively the next sample
StillWaiting ==
  (Len(log) > 0 /\ Last.fn = "busy_wait" /\ Last.ok
   /\ (Last.k = "delay" \/ Last.n = HIGH)) =>
    /\ Running
    /\ Cur.fn = "busy_wait"
    /\ Last.k = "busy" => Cur.k = "delay" /\ Cur.n = 10 /\ pc = Last.pc + 1
    /\ Last.k = "delay" => Cur.k = "busy" /\ pc = Last.pc - 1

\* C19: busy_wait has no bound on its wait: however many samples read high,
\* it does not return but goes on alternating 10 ms delays and samples; and
\* when busy eventually reads low and nothing fails, every init and
\* display_refresh call eventually returns Ok.
C19_UnboundedWait ==
  /\ []StillWaiting
  /\ (Running /\ call \in {"init", "display_refresh"})
       ~> (~Running /\ (result = Ok \/ raised # "none"))

C19_Witness ==
  /\ Returned("display_refresh")
  /\ Cardinality({i \in 1..Len(log) : SampleAt(i, HIGH)}) = MaxBusyHigh
  /\ Cardinality({i \in 1..Len(log) : log[i].k = "delay"}) = MaxBusyHigh

\* C20: whenever init, update_bw, update_red or display_refresh returns Ok,
\* chip-select is high, whatever its initial level and whatever failed in
\* earlier calls.
C20_ChipSelectHighOnOk ==
  (call \in {"init", "update_bw", "update_red", "display_refresh"}
   /\ ~Running /\ result = Ok) => pins.cs = HIGH

C20_Witness ==
  /\ Returned("update_bw")
  /\ faulted
  /\ log[1].cs = LOW
  /\ pins.cs = HIGH
====
